---- MODULE Spec2Model ----
(***************************************************************************)
(* srvmon: the monitor (SrvMon) with its ordered checker list and its      *)
(* one-way readiness flag, the Health and Ready evaluations, and the two   *)
(* adapters (REST handlers, gRPC service) that call them.                  *)
(*                                                                         *)
(* A call is modelled step by step: one step per iteration of the          *)
(* `for _, dep := range m.dependencies` loop, so that the order of the     *)
(* Check / MustOK invocations is part of the state.  What Check returns is *)
(* an input of the step (the checkers are external).                       *)
(*                                                                         *)
(* Run is modelled as the steps of its body together with the two serve    *)
(* goroutines it starts and the cancellation of its context.               *)
(*                                                                         *)
(* Spec     : the evaluations alone (Run is not called), over all outcomes *)
(*            and lists of up to MaxDeps checkers.                         *)
(* LifeSpec : Run, the goroutines and cancellation, with requests served   *)
(*            by the adapters that are up, over lists of up to LifeDeps    *)
(*            checkers and the outcomes LifeOutcomes.                      *)
(* ParitySpec: both adapters asked at the same time (Run is not called),   *)
(*            over lists of up to ParityDeps checkers; the bodies are      *)
(*            encoded as protojson and as the binary encoding.             *)
(* CtxSpec  : one request at a time whose context may be cancelled at any  *)
(*            point, over lists of up to CtxDeps checkers.                 *)
(***************************************************************************)
EXTENDS Naturals, Sequences, FiniteSets

\* ------------------------------------------------------------------ bounds

\* Largest number of registered checkers.
MaxDeps == 3

\* ------------------------------------------------------------ input sets

\* The checkers that may be registered: a critical and a non-critical one
\* (MustOK returns the fixed value given at construction).
Pool ==
    { [name |-> "redis",        must |-> TRUE],
      [name |-> "external-api", must |-> FALSE] }

\* cfg.Version
Versions == { "1.0.0" }

\* pb.Status
Statuses == { "UP", "DOWN", "DEGRADED", "UNKNOWN" }

\* A string that is not valid UTF-8 (a Go string is any byte sequence).
BadUTF8 == "\\xff"

\* What one Check call may return: (nil, err) or (result, nil).  Two
\* different messages for DOWN results, so that results can be told apart,
\* and a result whose message is not valid UTF-8.
Outcomes ==
    { [err |-> TRUE,  status |-> "UNKNOWN",  message |-> ""],
      [err |-> FALSE, status |-> "UP",       message |-> BadUTF8],
      [err |-> FALSE, status |-> "UP",       message |-> "connection successful"],
      [err |-> FALSE, status |-> "DEGRADED", message |-> "slow"],
      [err |-> FALSE, status |-> "UNKNOWN",  message |-> "no answer"],
      [err |-> FALSE, status |-> "DOWN",     message |-> "connection failed"],
      [err |-> FALSE, status |-> "DOWN",     message |-> "timeout"] }

\* The two adapters through which Health and Ready are called.
Adapters == { "rest", "grpc" }

SeqsUpTo(S, n) == UNION { [1..k -> S] : k \in 0..n }

\* ------------------------------------------------------------------- state

VARIABLES
    dependencies,   \* m.dependencies: the registered checkers, in order
    version,        \* m.version
    ready,          \* m.ready (atomic.Bool)
    calls,          \* per adapter: the Health/Ready call it is handling
    crashed,        \* the process died of an unrecovered panic
    ctx,            \* the context given to Run: live or cancelled
    run,            \* where Run is in its body
    grpc,           \* the gRPC server, its listener and serve goroutine
    rest,           \* the REST server, its listener and serve goroutine
    logged          \* messages logged at error level or above

\* Run, its servers and its context.
life == << ctx, run, grpc, rest, logged >>

vars == << dependencies, version, ready, calls, crashed, life >>

\* A nil *pb.HealthResponse / *pb.ReadinessResponse.
NilResp == [kind |-> "nil"]

\* pb.CheckResult as returned by checker `dep` (name, status, message).
CheckResult(dep, out) ==
    [name |-> dep.name, status |-> out.status, message |-> out.message]

\* No call in progress.
IdleCall ==
    [ pc        |-> "idle",     \* idle, loop, exited, answered
      op        |-> "none",     \* Health or Ready
      exit      |-> "none",     \* how the call ended: return or panic
      deps      |-> << >>,      \* the slice the range loop iterates
      i         |-> 0,          \* index of the next checker
      once      |-> FALSE,      \* sync.Once: its function has run
      sawReady  |-> FALSE,      \* what m.ready.Load() returned
      flag      |-> FALSE,      \* history: m.ready when the call began
      resp      |-> NilResp,    \* resp
      err       |-> FALSE,      \* the error result is non-nil
      checked   |-> << >>,      \* history: Check calls made, with outcome
      mustAsked |-> << >>,      \* history: MustOK calls made
      mustCtx   |-> << >>,      \* history: the context each MustOK got
      rctx      |-> "live",     \* the caller's context: live or cancelled
      dropped   |-> FALSE,      \* its connection was closed under it
      wire      |-> "none",     \* what the adapter answered
      body      |-> << >> ]     \* the encoded response it sent, if any

Quiescent == \A c \in Adapters : calls[c].pc = "idle"

\* No call is inside Health or Ready (the loop reads m.dependencies without
\* a lock, so registration happens while none is).
NoEvaluation == \A c \in Adapters : calls[c].pc # "loop"

\* ------------------------------------------------------------ New, setters

\* No server yet: Run has not been called.
NoGRPC == [ lis    |-> "none",    \* none, open, closed, failed
            srv    |-> "none",    \* none, running, stopped
            go     |-> "none",    \* none, spawned, serving, exited
            health |-> "unset" ]  \* unset, SERVING, NOT_SERVING

NoREST == [ lis     |-> "none",   \* none, open, closed
            go      |-> "none",   \* none, spawned, bound, serving, exited
            shut    |-> FALSE,    \* Shutdown has been called
            failed  |-> FALSE,    \* ListenAndServe returned a failure
            shutErr |-> FALSE ]   \* Shutdown returned an error

\* New(cfg, log, dependencies...) with at most n checkers.
InitWith(n) ==
    /\ dependencies \in SeqsUpTo(Pool, n)
    /\ version \in Versions
    /\ ready = FALSE
    /\ calls = [c \in Adapters |-> IdleCall]
    /\ crashed = FALSE
    /\ ctx = "live"
    /\ run = "created"
    /\ grpc = NoGRPC
    /\ rest = NoREST
    /\ logged = { }

Init == InitWith(MaxDeps)

\* Mutant of AppendAll: the arguments replace the list.
AppendAllReplace(deps, args) == args

\* append(m.dependencies, dependency...)
AppendAll(deps, args) == deps \o args

\* AddDependencies(dependency...): append, in argument order.
AddDependencies(args) ==
    /\ ~crashed
    /\ Len(dependencies) + Len(args) <= MaxDeps
    /\ dependencies' = AppendAll(dependencies, args)
    /\ UNCHANGED << version, ready, calls, crashed, life >>

\* Mutant of CompareAndSwap: a flag that is already set is cleared.
CompareAndSwapFlip(cur, old, new) == IF cur = old THEN new ELSE old

\* ready.CompareAndSwap(false, true)
CompareAndSwap(cur, old, new) == IF cur = old THEN new ELSE cur

SetReady ==
    /\ ~crashed
    /\ ready' = CompareAndSwap(ready, FALSE, TRUE)
    /\ UNCHANGED << dependencies, version, calls, crashed, life >>

\* ------------------------------------------------------------------ Health

\* Mutant of PassCtx: the checkers get a context of the loop's own, which
\* is not cancelled with the caller's.
PassCtxDetached(rctx) == "live"

\* The context handed to dep.Check(ctx) and dep.MustOK(ctx): the caller's.
PassCtx(rctx) == rctx

\* Mutant of LoopGoesOn: the loop stops when the context is cancelled.
LoopGoesOnWhileLive(rctx) == rctx = "live"

\* Whether `for _, dep := range m.dependencies` goes on to the next checker
\* under this context: it does not look at it.
LoopGoesOn(rctx) == TRUE

\* Mutant of OnceDo: no latch, f runs on every call.
OnceDoAlways(once, cur, new) == new

\* sync.Once.Do(f): f runs on the first call only.  `cur` is the value f
\* assigns to, `new` what f assigns.
OnceDo(once, cur, new) == IF once THEN cur ELSE new

\* Mutant of HealthInit: Status left at the enum's zero value.
HealthInitUnset(ver) ==
    [ kind |-> "health", status |-> "UNSPECIFIED", version |-> ver,
      checks |-> << >>, timestamp |-> "unset" ]

\* Mutant of HealthInit: the configured version is not copied.
HealthInitNoVersion(ver) ==
    [ kind |-> "health", status |-> "UP", version |-> "",
      checks |-> << >>, timestamp |-> "unset" ]

\* resp := &pb.HealthResponse{Status: STATUS_UP, Version: m.version}
HealthInit(ver) ==
    [ kind |-> "health", status |-> "UP", version |-> ver,
      checks |-> << >>, timestamp |-> "unset" ]

\* Mutant of AppendCheck: the result is put in front.
AppendCheckFront(checks, check) == << check >> \o checks

\* resp.Checks = append(resp.Checks, check)
AppendCheck(checks, check) == Append(checks, check)

\* Mutant of HealthVerdict: MustOK is not consulted.
HealthVerdictDown(must) == "DOWN"

\* The status a DOWN result asks for: DOWN if dep.MustOK(ctx), else DEGRADED.
HealthVerdict(must) == IF must THEN "DOWN" ELSE "DEGRADED"

\* Mutant of HealthOnError: the error is swallowed, the loop goes on.
HealthOnErrorSkip(call) == [call EXCEPT !.i = @ + 1]

\* if err != nil { return nil, fmt.Errorf(...) }
HealthOnError(call) ==
    [call EXCEPT !.pc = "exited", !.exit = "return",
                 !.resp = NilResp, !.err = TRUE]

\* Mutant of HealthFold: any result other than UP downgrades the aggregate,
\* to the result's own status when that is not DOWN.
HealthFoldNotUp(call, dep, check) ==
    LET appended == [call EXCEPT !.resp.checks = AppendCheck(@, check),
                                 !.i = @ + 1]
    IN  IF check.status = "UP"
        THEN appended
        ELSE [appended EXCEPT
                !.mustAsked = Append(@, call.i),
                !.mustCtx = Append(@, PassCtx(call.rctx)),
                !.resp.status =
                    OnceDo(call.once, @,
                           IF check.status = "DOWN"
                           THEN HealthVerdict(dep.must) ELSE check.status),
                !.once = TRUE]

\* Mutant of HealthFold: the loop is left at the first DOWN result.
HealthFoldBreak(call, dep, check) ==
    LET appended == [call EXCEPT !.resp.checks = AppendCheck(@, check),
                                 !.i = @ + 1]
    IN  IF check.status # "DOWN"
        THEN appended
        ELSE [appended EXCEPT
                !.i = Len(call.deps) + 1,
                !.mustAsked = Append(@, call.i),
                !.mustCtx = Append(@, PassCtx(call.rctx)),
                !.resp.status = OnceDo(call.once, @, HealthVerdict(dep.must)),
                !.once = TRUE]

\* One iteration of Health's loop body once Check has returned `check`.
HealthFold(call, dep, check) ==
    LET appended == [call EXCEPT !.resp.checks = AppendCheck(@, check),
                                 !.i = @ + 1]
    IN  IF check.status # "DOWN"
        THEN appended
        ELSE [appended EXCEPT
                !.mustAsked = Append(@, call.i),
                !.mustCtx = Append(@, PassCtx(call.rctx)),
                !.resp.status = OnceDo(call.once, @, HealthVerdict(dep.must)),
                !.once = TRUE]

\* Mutant of HealthCall: Health has the gate of Ready; with the flag false
\* it returns DOWN at once.
HealthCallGated(c) ==
    /\ ~crashed
    /\ calls[c].pc = "idle"
    /\ calls' = [calls EXCEPT ![c] =
                    IF ready
                    THEN [IdleCall EXCEPT !.pc = "loop", !.op = "Health",
                                          !.deps = dependencies, !.i = 1,
                                          !.flag = ready,
                                          !.resp = HealthInit(version)]
                    ELSE [IdleCall EXCEPT
                            !.pc = "exited", !.op = "Health",
                            !.exit = "return",
                            !.deps = dependencies, !.i = 1,
                            !.flag = ready,
                            !.resp = [HealthInit(version) EXCEPT
                                        !.status = "DOWN",
                                        !.timestamp = "now"]]]
    /\ UNCHANGED << dependencies, version, ready, crashed, life >>

\* Mutant of HealthCall: the Once is a field of the monitor, shared by the
\* evaluations in progress.
HealthCallSharedOnce(c) ==
    /\ ~crashed
    /\ calls[c].pc = "idle"
    /\ calls' = [calls EXCEPT ![c] =
                    [IdleCall EXCEPT !.pc = "loop", !.op = "Health",
                                     !.deps = dependencies, !.i = 1,
                                     !.once = \E d \in Adapters : calls[d].once,
                                     !.flag = ready,
                                     !.resp = HealthInit(version)]]
    /\ UNCHANGED << dependencies, version, ready, crashed, life >>

\* Entry of Health: resp is built, the range expression is evaluated.
HealthCall(c) ==
    /\ ~crashed
    /\ calls[c].pc = "idle"
    /\ calls' = [calls EXCEPT ![c] =
                    [IdleCall EXCEPT !.pc = "loop", !.op = "Health",
                                     !.deps = dependencies, !.i = 1,
                                     !.flag = ready,
                                     !.resp = HealthInit(version)]]
    /\ UNCHANGED << dependencies, version, ready, crashed, life >>

\* One iteration: dep.Check(ctx) returns `out`.
HealthCheck(c, out) ==
    LET call == calls[c] IN
    /\ ~crashed
    /\ call.pc = "loop" /\ call.op = "Health"
    /\ call.i <= Len(call.deps)
    /\ LET dep  == call.deps[call.i]
           seen == [call EXCEPT !.checked =
                        Append(@, [idx |-> call.i, out |-> out,
                                   ctx |-> PassCtx(call.rctx)])]
       IN  calls' = [calls EXCEPT ![c] =
                        IF ~LoopGoesOn(call.rctx)
                        THEN HealthOnError(call)
                        ELSE IF out.err
                        THEN HealthOnError(seen)
                        ELSE HealthFold(seen, dep, CheckResult(dep, out))]
    /\ UNCHANGED << dependencies, version, ready, crashed, life >>

\* The loop is over: resp.Timestamp = now; return resp, nil
HealthReturn(c) ==
    LET call == calls[c] IN
    /\ ~crashed
    /\ call.pc = "loop" /\ call.op = "Health"
    /\ call.i > Len(call.deps)
    /\ calls' = [calls EXCEPT ![c] =
                    [call EXCEPT !.pc = "exited", !.exit = "return",
                                 !.resp.timestamp = "now"]]
    /\ UNCHANGED << dependencies, version, ready, crashed, life >>

\* ------------------------------------------------------------------- Ready

\* resp = &pb.ReadinessResponse{Ready: false}
ReadyInit ==
    [ kind |-> "ready", ready |-> FALSE, reason |-> "",
      checks |-> << >>, timestamp |-> "unset" ]

\* A return statement of Ready: the named result resp is assigned, then the
\* deferred function runs `resp.Timestamp = now` on it.  On a nil resp that
\* assignment is a nil-pointer dereference: the call panics.
ReadyExit(call, retResp, retErr) ==
    IF retResp.kind = "nil"
    THEN [call EXCEPT !.pc = "exited", !.exit = "panic",
                      !.resp = NilResp, !.err = FALSE]
    ELSE [call EXCEPT !.pc = "exited", !.exit = "return",
                      !.resp = [retResp EXCEPT !.timestamp = "now"],
                      !.err = retErr]

\* if err != nil { return nil, fmt.Errorf(...) }
ReadyOnError(call) == ReadyExit(call, NilResp, TRUE)

\* Mutant of ReadyGate: the reason is set but the loop runs all the same.
ReadyGateNoReturn(call, flag) ==
    IF ~flag
    THEN [call EXCEPT !.sawReady = FALSE,
                      !.resp.reason = "service is not ready"]
    ELSE [call EXCEPT !.sawReady = TRUE, !.resp.ready = TRUE]

\* Mutant of ReadyGate: the flag is loaded but the early return is missing.
ReadyGateOpen(call, flag) ==
    [call EXCEPT !.sawReady = flag, !.resp.ready = TRUE]

\* if !m.ready.Load() { resp.Reason = "service is not ready"; return resp, nil }
\* resp.Ready = true
ReadyGate(call, flag) ==
    IF ~flag
    THEN ReadyExit([call EXCEPT !.sawReady = FALSE],
                   [call.resp EXCEPT !.reason = "service is not ready"], FALSE)
    ELSE [call EXCEPT !.sawReady = TRUE, !.resp.ready = TRUE]

\* Mutant of ReadyBlocks: the test of MustOK is inverted.
ReadyBlocksInverted(must) == ~must

\* Mutant of ReadyBlocks: any DOWN result makes the service not ready.
ReadyBlocksAny(must) == TRUE

\* Whether a DOWN result of a checker with this MustOK runs the once.Do.
ReadyBlocks(must) == must

\* One iteration of Ready's loop body once Check has returned `check`.
ReadyFold(call, dep, check) ==
    LET appended == [call EXCEPT !.resp.checks = AppendCheck(@, check),
                                 !.i = @ + 1]
    IN  IF check.status # "DOWN"
        THEN appended
        ELSE LET asked == [appended EXCEPT
                              !.mustAsked = Append(@, call.i),
                              !.mustCtx = Append(@, PassCtx(call.rctx))]
             IN  IF ReadyBlocks(dep.must)
                 THEN [asked EXCEPT
                         !.resp.ready  = OnceDo(call.once, @, FALSE),
                         !.resp.reason = OnceDo(call.once, @, check.message),
                         !.once = TRUE]
                 ELSE asked

\* Entry of Ready up to the loop: resp is built, the flag is loaded once.
ReadyCall(c) ==
    /\ ~crashed
    /\ calls[c].pc = "idle"
    /\ calls' = [calls EXCEPT ![c] =
                    ReadyGate([IdleCall EXCEPT !.pc = "loop", !.op = "Ready",
                                               !.deps = dependencies, !.i = 1,
                                               !.flag = ready,
                                               !.resp = ReadyInit],
                              ready)]
    /\ UNCHANGED << dependencies, version, ready, crashed, life >>

\* One iteration: dep.Check(ctx) returns `out`.
ReadyCheck(c, out) ==
    LET call == calls[c] IN
    /\ ~crashed
    /\ call.pc = "loop" /\ call.op = "Ready"
    /\ call.i <= Len(call.deps)
    /\ LET dep  == call.deps[call.i]
           seen == [call EXCEPT !.checked =
                        Append(@, [idx |-> call.i, out |-> out,
                                   ctx |-> PassCtx(call.rctx)])]
       IN  calls' = [calls EXCEPT ![c] =
                        IF ~LoopGoesOn(call.rctx)
                        THEN ReadyOnError(call)
                        ELSE IF out.err
                        THEN ReadyOnError(seen)
                        ELSE ReadyFold(seen, dep, CheckResult(dep, out))]
    /\ UNCHANGED << dependencies, version, ready, crashed, life >>

\* The loop is over: return resp, nil
ReadyReturn(c) ==
    LET call == calls[c] IN
    /\ ~crashed
    /\ call.pc = "loop" /\ call.op = "Ready"
    /\ call.i > Len(call.deps)
    /\ calls' = [calls EXCEPT ![c] = ReadyExit(call, call.resp, FALSE)]
    /\ UNCHANGED << dependencies, version, ready, crashed, life >>

\* ---------------------------------------------------------------- adapters

\* Whether protojson.Marshal / proto.Marshal accept the message: both
\* refuse a string field that is not valid UTF-8.
Marshalable(resp) ==
    /\ resp.kind = "health" => resp.version # BadUTF8
    /\ resp.kind = "ready" => resp.reason # BadUTF8
    /\ \A k \in 1..Len(resp.checks) :
          resp.checks[k].name # BadUTF8 /\ resp.checks[k].message # BadUTF8

\* Mutant of RestAnswer: a verdict of DOWN / not ready is answered 503.
RestAnswerByVerdict(call) ==
    IF call.exit = "panic" THEN "aborted"
    ELSE IF call.err THEN "503"
    ELSE IF ~Marshalable(call.resp) THEN "500"
    ELSE IF call.resp.kind = "health" /\ call.resp.status = "DOWN" THEN "503"
    ELSE IF call.resp.kind = "ready" /\ ~call.resp.ready THEN "503"
    ELSE "200"

\* healthHandler / readyHandler: 503 on an error, 500 when the response
\* cannot be marshalled, else 200 with the body.  A panic of the handler is
\* recovered by net/http, which drops the connection: the client gets no
\* HTTP answer.
RestAnswer(call) ==
    IF call.exit = "panic" THEN "aborted"
    ELSE IF call.err THEN "503"
    ELSE IF ~Marshalable(call.resp) THEN "500"
    ELSE "200"

\* The generated gRPC service calls m.Health / m.Ready: a plain error is
\* sent as status Unknown, a response that cannot be marshalled as status
\* Internal; a panic is not recovered and ends the process.  Nothing is
\* sent for a call whose connection Stop has closed.
GrpcAnswer(call) ==
    IF call.exit = "panic" THEN "crash"
    ELSE IF call.dropped THEN "dropped"
    ELSE IF call.err THEN "Unknown"
    ELSE IF ~Marshalable(call.resp) THEN "Internal"
    ELSE "OK"

\* ------------------------------------------------------- wire encodings

\* The fields of a response that are compared across adapters (timestamps
\* are taken per call).
WireFields(kind) ==
    IF kind = "health" THEN { "status", "version", "checks" }
    ELSE { "ready", "reason", "checks" }

CheckFields == { "name", "status", "message" }

\* The proto3 zero value of each field: it is not put on the wire.
Zero ==
    [ status |-> "UNSPECIFIED", version |-> "", ready |-> FALSE,
      reason |-> "", checks |-> << >>, name |-> "", message |-> "" ]

\* pb.Status as protojson writes it: the enum value's name.
StatusName(st) ==
    CASE st = "UP"       -> "STATUS_UP"
      [] st = "DOWN"     -> "STATUS_DOWN"
      [] st = "DEGRADED" -> "STATUS_DEGRADED"
      [] st = "UNKNOWN"  -> "STATUS_UNKNOWN"
      [] OTHER           -> "STATUS_UNSPECIFIED"

\* pb.Status as the binary encoding writes it: the enum value's number.
StatusNumber(st) ==
    CASE st = "UP"       -> 1
      [] st = "DOWN"     -> 2
      [] st = "DEGRADED" -> 3
      [] st = "UNKNOWN"  -> 4
      [] OTHER           -> 0

\* The status a client reads from an enum name / an enum number.
StatusOfName(n) == CHOOSE st \in Statuses \cup { "UNSPECIFIED" } : StatusName(st) = n

StatusOfNumber(n) == CHOOSE st \in Statuses \cup { "UNSPECIFIED" } : StatusNumber(st) = n

\* The populated fields of a message: what either encoding emits.
Populated(msg, fields) == { f \in fields : msg[f] # Zero[f] }

\* One pb.CheckResult as a JSON object / as a binary message.
JSONCheck(check) ==
    [ f \in Populated(check, CheckFields) |->
        IF f = "status" THEN StatusName(check[f]) ELSE check[f] ]

ProtoCheck(check) ==
    [ f \in Populated(check, CheckFields) |->
        IF f = "status" THEN StatusNumber(check[f]) ELSE check[f] ]

\* Mutant of ProtoJSONMarshal: the checks are left out of the body.
ProtoJSONMarshalNoChecks(resp) ==
    [ f \in Populated(resp, WireFields(resp.kind)) \ { "checks" } |->
        IF f = "status" THEN StatusName(resp[f]) ELSE resp[f] ]

\* protojson.Marshal(resp): a JSON object of the populated fields, enums by
\* name.
ProtoJSONMarshal(resp) ==
    [ f \in Populated(resp, WireFields(resp.kind)) |->
        CASE f = "status" -> StatusName(resp[f])
          [] f = "checks" -> [ k \in 1..Len(resp[f]) |-> JSONCheck(resp[f][k]) ]
          [] OTHER        -> resp[f] ]

\* The binary encoding the gRPC server sends: the populated fields, enums
\* by number.
ProtoMarshal(resp) ==
    [ f \in Populated(resp, WireFields(resp.kind)) |->
        CASE f = "status" -> StatusNumber(resp[f])
          [] f = "checks" -> [ k \in 1..Len(resp[f]) |-> ProtoCheck(resp[f][k]) ]
          [] OTHER        -> resp[f] ]

\* What a client reads from a JSON body: a field that is absent has its
\* zero value.
JSONReadCheck(obj) ==
    [ f \in CheckFields |->
        IF f \notin DOMAIN obj THEN Zero[f]
        ELSE IF f = "status" THEN StatusOfName(obj[f]) ELSE obj[f] ]

JSONRead(kind, body) ==
    [ f \in WireFields(kind) |->
        IF f \notin DOMAIN body THEN Zero[f]
        ELSE CASE f = "status" -> StatusOfName(body[f])
               [] f = "checks" ->
                    [ k \in 1..Len(body[f]) |-> JSONReadCheck(body[f][k]) ]
               [] OTHER        -> body[f] ]

\* What a client reads from a binary message.
ProtoReadCheck(obj) ==
    [ f \in CheckFields |->
        IF f \notin DOMAIN obj THEN Zero[f]
        ELSE IF f = "status" THEN StatusOfNumber(obj[f]) ELSE obj[f] ]

ProtoRead(kind, body) ==
    [ f \in WireFields(kind) |->
        IF f \notin DOMAIN body THEN Zero[f]
        ELSE CASE f = "status" -> StatusOfNumber(body[f])
               [] f = "checks" ->
                    [ k \in 1..Len(body[f]) |-> ProtoReadCheck(body[f][k]) ]
               [] OTHER        -> body[f] ]

\* The body that goes with an answer: only a 200 / an OK carries one.
Body(c, ans, resp) ==
    IF c = "rest" /\ ans = "200" THEN ProtoJSONMarshal(resp)
    ELSE IF c = "grpc" /\ ans = "OK" THEN ProtoMarshal(resp)
    ELSE << >>

\* The adapter turns what the call returned into its answer on the wire.
Respond(c) ==
    LET call == calls[c]
        ans  == IF c = "rest" THEN RestAnswer(call) ELSE GrpcAnswer(call)
    IN
    /\ ~crashed
    /\ call.pc = "exited"
    /\ calls' = [calls EXCEPT ![c] =
                    [call EXCEPT !.pc = "answered", !.wire = ans,
                                 !.body = Body(c, ans, call.resp)]]
    /\ crashed' = (ans = "crash")
    /\ UNCHANGED << dependencies, version, ready, life >>

\* The request is over; the adapter is free for the next one.
Complete(c) ==
    /\ ~crashed
    /\ calls[c].pc = "answered"
    /\ calls' = [calls EXCEPT ![c] = IdleCall]
    /\ UNCHANGED << dependencies, version, ready, crashed, life >>

\* --------------------------------------------------------------------- Run

\* Mutant of StartGRPC: SetServingStatus("", SERVING) is missing.
StartGRPCUnset(ok) ==
    IF ok
    THEN [ lis |-> "open",   srv |-> "running", go |-> "spawned",
           health |-> "unset" ]
    ELSE [ lis |-> "failed", srv |-> "running", go |-> "none",
           health |-> "unset" ]

\* startGRPC up to its return: the server is created, the health service
\* registered and set to SERVING for "", then net.Listen binds (ok) or fails;
\* on success the goroutine that will call s.Serve(lis) is started.
StartGRPC(ok) ==
    IF ok
    THEN [ lis |-> "open",   srv |-> "running", go |-> "spawned",
           health |-> "SERVING" ]
    ELSE [ lis |-> "failed", srv |-> "running", go |-> "none",
           health |-> "SERVING" ]

\* Mutant of AfterStartGRPC: the failed bind is logged and Run goes on.
AfterStartGRPCGoOn(ok) == "startREST"

\* Where Run continues after startGRPC: m.log.Panic on a failed bind.
AfterStartGRPC(ok) == IF ok THEN "startREST" ELSE "panicked"

\* Mutant of StartREST: the serve goroutine is not started.
StartRESTIdle(r) == r

\* startREST: the router and server are built and the goroutine that will
\* call srv.ListenAndServe() is started; srv.Shutdown is returned.
StartREST(r) == [r EXCEPT !.go = "spawned"]

\* Mutant of Done: Run does not wait for the cancellation.
DoneAlways(c) == TRUE

\* <-ctx.Done() can be received from.
Done(c) == c = "cancelled"

\* Mutant of AfterCancel: the REST server is shut down first.
AfterCancelRestFirst == "shutdownREST"

\* What Run does once <-ctx.Done() has returned: shutdownGRPC().
AfterCancel == "shutdownGRPC"

\* What Run does once shutdownGRPC() has returned: shutdownREST(...).
AfterGRPCStop == "shutdownREST"

\* Mutant of AfterShutdown: the error is raised as a panic.
AfterShutdownEscalate(err) == IF err THEN "panicked" ELSE "returned"

\* What Run does once shutdownREST has returned err: log it, then return.
AfterShutdown(err) == "returned"

\* Mutant of OnRestFailure: the failure ends Run, as a failed gRPC bind does.
OnRestFailureFatal(r) == "panicked"

\* What a failure of ListenAndServe does to Run: nothing, it is logged by
\* the goroutine (m.log.Error).
OnRestFailure(r) == r

\* healthSrv.Shutdown(): every service is set to NOT_SERVING.
HealthShutdown(g) == [g EXCEPT !.health = "NOT_SERVING"]

\* s.Stop(): the listeners the server serves on are closed and Stop waits
\* for their Serve calls to return; a Serve that has not begun is not
\* waited for and its listener stays open until that Serve runs.
StopGRPC(g) ==
    [g EXCEPT !.srv = "stopped",
              !.lis = IF g.go = "serving" THEN "closed" ELSE @,
              !.go  = IF g.go = "serving" THEN "exited" ELSE @]

\* srv.Shutdown(context.Background()) up to its wait for the connections:
\* the server is marked shut down and the listener it serves on is closed
\* (closing may fail: err).
ShutdownREST(r, err) ==
    [r EXCEPT !.shut = TRUE,
              !.lis = IF r.go = "serving" THEN "closed" ELSE @,
              !.shutErr = err]

\* Run is called: shutdownGRPC := m.startGRPC()
RunStart(ok) ==
    /\ ~crashed
    /\ run = "created"
    /\ grpc' = StartGRPC(ok)
    /\ run' = AfterStartGRPC(ok)
    /\ logged' = IF ok THEN logged ELSE logged \cup { "listen:" }
    /\ UNCHANGED << dependencies, version, ready, calls, crashed, ctx, rest >>

\* shutdownREST := m.startREST()
RunStartREST ==
    /\ ~crashed
    /\ run = "startREST"
    /\ rest' = StartREST(rest)
    /\ run' = "wait"
    /\ UNCHANGED << dependencies, version, ready, calls, crashed, ctx, grpc,
                    logged >>

\* <-ctx.Done()
RunWait ==
    /\ ~crashed
    /\ run = "wait"
    /\ Done(ctx)
    /\ run' = AfterCancel
    /\ UNCHANGED << dependencies, version, ready, calls, crashed, ctx, grpc,
                    rest, logged >>

\* shutdownGRPC(), first statement: healthSrv.Shutdown()
RunHealthShutdown ==
    /\ ~crashed
    /\ run = "shutdownGRPC"
    /\ grpc' = HealthShutdown(grpc)
    /\ run' = "stopGRPC"
    /\ UNCHANGED << dependencies, version, ready, calls, crashed, ctx, rest,
                    logged >>

\* shutdownGRPC(), second statement: s.Stop().  The connection of a gRPC
\* call in progress is closed under it.
RunStopGRPC ==
    /\ ~crashed
    /\ run = "stopGRPC"
    /\ grpc' = StopGRPC(grpc)
    /\ calls' = [calls EXCEPT !["grpc"].dropped =
                    calls["grpc"].pc \in { "loop", "exited" }]
    /\ run' = AfterGRPCStop
    /\ UNCHANGED << dependencies, version, ready, crashed, ctx, rest, logged >>

\* shutdownREST(context.Background()) is called.  Closing a listener can
\* only fail if there is one to close.
RunShutdownREST(err) ==
    /\ ~crashed
    /\ run = "shutdownREST"
    /\ err => rest.go = "serving"
    /\ rest' = ShutdownREST(rest, err)
    /\ run' = "draining"
    /\ UNCHANGED << dependencies, version, ready, calls, crashed, ctx, grpc,
                    logged >>

\* Mutant of RunReturn: Shutdown gives up on the requests in progress (a
\* shutdown context that expires).
RunReturnNoWait ==
    /\ ~crashed
    /\ run = "draining"
    /\ run' = AfterShutdown(rest.shutErr)
    /\ logged' = IF rest.shutErr
                 THEN logged \cup { "shutdown rest server" }
                 ELSE logged
    /\ UNCHANGED << dependencies, version, ready, calls, crashed, ctx, grpc,
                    rest >>

\* Shutdown returns once no REST request is in progress (its context is
\* never cancelled); Run logs the error, if any, and returns.
RunReturn ==
    /\ ~crashed
    /\ run = "draining"
    /\ calls["rest"].pc = "idle"
    /\ run' = AfterShutdown(rest.shutErr)
    /\ logged' = IF rest.shutErr
                 THEN logged \cup { "shutdown rest server" }
                 ELSE logged
    /\ UNCHANGED << dependencies, version, ready, calls, crashed, ctx, grpc,
                    rest >>

\* The context is cancelled (by the caller of Run, at any time).
Cancel ==
    /\ ~crashed
    /\ ctx = "live"
    /\ ctx' = "cancelled"
    /\ UNCHANGED << dependencies, version, ready, calls, crashed, run, grpc,
                    rest, logged >>

\* ---------------------------------------------------- the serve goroutines

\* go func() { s.Serve(lis) }: Serve starts accepting, or, on a server that
\* was stopped already, closes lis and returns ErrServerStopped (logged).
GrpcServe ==
    /\ ~crashed
    /\ grpc.go = "spawned"
    /\ IF grpc.srv = "stopped"
       THEN /\ grpc' = [grpc EXCEPT !.lis = "closed", !.go = "exited"]
            /\ logged' = logged \cup { "serve:" }
       ELSE /\ grpc' = [grpc EXCEPT !.go = "serving"]
            /\ UNCHANGED logged
    /\ UNCHANGED << dependencies, version, ready, calls, crashed, ctx, run,
                    rest >>

\* Accept fails for good: Serve closes lis and returns the error (logged).
GrpcServeFail ==
    /\ ~crashed
    /\ grpc.go = "serving" /\ grpc.srv = "running"
    /\ grpc' = [grpc EXCEPT !.lis = "closed", !.go = "exited"]
    /\ logged' = logged \cup { "serve:" }
    /\ UNCHANGED << dependencies, version, ready, calls, crashed, ctx, run,
                    rest >>

\* go func() { srv.ListenAndServe() }, its bind: after Shutdown it returns
\* ErrServerClosed (not logged) without binding; else net.Listen binds (ok)
\* or fails, and the failure is logged.
RestListen(ok) ==
    /\ ~crashed
    /\ rest.go = "spawned"
    /\ IF rest.shut
       THEN /\ rest' = [rest EXCEPT !.go = "exited"]
            /\ UNCHANGED logged
       ELSE IF ok
       THEN /\ rest' = [rest EXCEPT !.lis = "open", !.go = "bound"]
            /\ UNCHANGED logged
       ELSE /\ rest' = [rest EXCEPT !.go = "exited", !.failed = TRUE]
            /\ logged' = logged \cup { "serve rest" }
    /\ run' = IF ~rest.shut /\ ~ok THEN OnRestFailure(run) ELSE run
    /\ UNCHANGED << dependencies, version, ready, calls, crashed, ctx, grpc >>

\* srv.Serve(ln) registers the listener and accepts, or, after Shutdown,
\* closes it and returns ErrServerClosed (not logged).
RestServe ==
    /\ ~crashed
    /\ rest.go = "bound"
    /\ rest' = IF rest.shut
               THEN [rest EXCEPT !.lis = "closed", !.go = "exited"]
               ELSE [rest EXCEPT !.go = "serving"]
    /\ UNCHANGED << dependencies, version, ready, calls, crashed, ctx, run,
                    grpc, logged >>

\* Accept fails for good: Serve closes the listener and returns the error,
\* which is logged.
RestServeFail ==
    /\ ~crashed
    /\ rest.go = "serving" /\ ~rest.shut
    /\ rest' = [rest EXCEPT !.lis = "closed", !.go = "exited",
                            !.failed = TRUE]
    /\ logged' = logged \cup { "serve rest" }
    /\ run' = OnRestFailure(run)
    /\ UNCHANGED << dependencies, version, ready, calls, crashed, ctx, grpc >>

\* After Shutdown, Serve returns ErrServerClosed (not logged).
RestServeExit ==
    /\ ~crashed
    /\ rest.go = "serving" /\ rest.shut
    /\ rest' = [rest EXCEPT !.go = "exited"]
    /\ UNCHANGED << dependencies, version, ready, calls, crashed, ctx, run,
                    grpc, logged >>

\* Adapter c accepts requests.
Up(c) ==
    IF c = "grpc"
    THEN grpc.go = "serving" /\ grpc.srv = "running"
    ELSE rest.go = "serving" /\ ~rest.shut

\* ------------------------------------------------------------ specification

\* Checkers are registered while nothing is being served, and calls are
\* handled one at a time.
Next ==
    \/ \E args \in SeqsUpTo(Pool, MaxDeps) : Quiescent /\ AddDependencies(args)
    \/ SetReady
    \/ \E c \in Adapters : Quiescent /\ HealthCall(c)
    \/ \E c \in Adapters : Quiescent /\ ReadyCall(c)
    \/ \E c \in Adapters, out \in Outcomes : HealthCheck(c, out)
    \/ \E c \in Adapters, out \in Outcomes : ReadyCheck(c, out)
    \/ \E c \in Adapters : HealthReturn(c)
    \/ \E c \in Adapters : ReadyReturn(c)
    \/ \E c \in Adapters : Respond(c)
    \/ \E c \in Adapters : Complete(c)

Spec == Init /\ [][Next]_vars

\* Largest number of registered checkers under LifeSpec.
LifeDeps == 2

\* The outcomes of Check under LifeSpec.
LifeOutcomes ==
    { out \in Outcomes :
        out.err \/ out.status = "UP" \/ out.message = "connection failed" }

LifeInit == InitWith(LifeDeps)

\* A request reaches adapter c, which is up and free.
LifeHealthCall(c) == Up(c) /\ Quiescent /\ HealthCall(c)
LifeReadyCall(c) == Up(c) /\ Quiescent /\ ReadyCall(c)

\* A step of Run's body.
RunStep ==
    \/ \E ok \in BOOLEAN : RunStart(ok)
    \/ RunStartREST
    \/ RunWait
    \/ RunHealthShutdown
    \/ RunStopGRPC
    \/ \E err \in BOOLEAN : RunShutdownREST(err)
    \/ RunReturn

\* A step of one of the two serve goroutines.
ServeStep ==
    \/ GrpcServe
    \/ GrpcServeFail
    \/ \E ok \in BOOLEAN : RestListen(ok)
    \/ RestServe
    \/ RestServeFail
    \/ RestServeExit

\* A step of a request in progress.
CallStep ==
    \/ \E c \in Adapters, out \in LifeOutcomes : HealthCheck(c, out)
    \/ \E c \in Adapters, out \in LifeOutcomes : ReadyCheck(c, out)
    \/ \E c \in Adapters : HealthReturn(c)
    \/ \E c \in Adapters : ReadyReturn(c)
    \/ \E c \in Adapters : Respond(c)
    \/ \E c \in Adapters : Complete(c)

LifeNext ==
    \/ \E args \in SeqsUpTo(Pool, LifeDeps) :
          /\ NoEvaluation
          /\ Len(dependencies) + Len(args) <= LifeDeps
          /\ AddDependencies(args)
    \/ SetReady
    \/ Cancel
    \/ RunStep
    \/ ServeStep
    \/ \E c \in Adapters : LifeHealthCall(c)
    \/ \E c \in Adapters : LifeReadyCall(c)
    \/ CallStep

LifeSpec == LifeInit /\ [][LifeNext]_vars

\* ----------------------------------------- both adapters asked at once

\* Largest number of registered checkers when both adapters are asked at
\* the same time.
ParityDeps == 2

ParityInit == InitWith(ParityDeps)

\* Requests arrive at both adapters independently; the checker list is
\* fixed before the first request (AddDependencies takes no lock).
ParityNext ==
    \/ \E args \in SeqsUpTo(Pool, ParityDeps) :
          /\ Quiescent
          /\ Len(dependencies) + Len(args) <= ParityDeps
          /\ AddDependencies(args)
    \/ SetReady
    \/ \E c \in Adapters : HealthCall(c)
    \/ \E c \in Adapters : ReadyCall(c)
    \/ CallStep

ParitySpec == ParityInit /\ [][ParityNext]_vars

\* ------------------------------------------ requests that are cancelled

\* Largest number of registered checkers when requests are cancelled.
CtxDeps == 2

CtxInit == InitWith(CtxDeps)

\* The caller of the evaluation in progress on adapter c cancels its
\* context (r.Context() / the context of the RPC).
CancelRequest(c) ==
    /\ ~crashed
    /\ calls[c].pc = "loop"
    /\ calls[c].rctx = "live"
    /\ calls' = [calls EXCEPT ![c].rctx = "cancelled"]
    /\ UNCHANGED << dependencies, version, ready, crashed, life >>

\* One request at a time, whose context may be cancelled at any point.
CtxNext ==
    \/ \E args \in SeqsUpTo(Pool, CtxDeps) :
          /\ Quiescent
          /\ Len(dependencies) + Len(args) <= CtxDeps
          /\ AddDependencies(args)
    \/ SetReady
    \/ \E c \in Adapters : Quiescent /\ HealthCall(c)
    \/ \E c \in Adapters : Quiescent /\ ReadyCall(c)
    \/ \E c \in Adapters : CancelRequest(c)
    \/ CallStep

CtxSpec == CtxInit /\ [][CtxNext]_vars

\* -------------------------------------------------------------- ConnChecker

\* Largest number of registered ConnCheckers.
ConnDeps == 2

\* NewConnChecker(conn, name, mustOK, opts...)
NewConnChecker(name, mustOK) == [name |-> name, must |-> mustOK]

\* The ConnCheckers that may be registered: a critical and a non-critical.
ConnPool == { NewConnChecker("other-service", m) : m \in BOOLEAN }

\* What client.Check(ctx, req) may return: an error (dial refused, deadline
\* of the timeout exceeded, ...) or a response with the peer's status, which
\* is one of the four enum values or a number this build does not know.
RpcResults ==
    { [failed |-> TRUE,  status |-> "none",
       text |-> "rpc error: code = Unavailable"] }
    \cup { [failed |-> FALSE, status |-> st, text |-> ""] :
             st \in { "UNKNOWN", "SERVING", "NOT_SERVING", "SERVICE_UNKNOWN",
                      "7" } }

\* Mutant of ConnCheck: the error of the RPC is returned to the caller.
ConnCheckReturnsErr(rpc) ==
    IF rpc.failed
    THEN [ err |-> TRUE, status |-> "UNKNOWN", message |-> "",
           error |-> rpc.text, rpc |-> rpc ]
    ELSE [ err |-> FALSE,
           status |-> CASE rpc.status = "SERVING" -> "UP"
                        [] rpc.status = "NOT_SERVING" -> "DOWN"
                        [] rpc.status = "SERVICE_UNKNOWN" -> "DEGRADED"
                        [] OTHER -> "UNKNOWN",
           message |-> rpc.status, error |-> "", rpc |-> rpc ]

\* ConnChecker.Check once the health RPC has returned `rpc`: what it
\* returns, with the RPC result kept as history.
ConnCheck(rpc) ==
    IF rpc.failed
    THEN [ err |-> FALSE, status |-> "DOWN",
           message |-> "health check failed", error |-> rpc.text,
           rpc |-> rpc ]
    ELSE [ err |-> FALSE,
           status |-> CASE rpc.status = "SERVING" -> "UP"
                        [] rpc.status = "NOT_SERVING" -> "DOWN"
                        [] rpc.status = "SERVICE_UNKNOWN" -> "DEGRADED"
                        [] OTHER -> "UNKNOWN",
           message |-> rpc.status, error |-> "", rpc |-> rpc ]

\* New(cfg, log) followed by AddDependencies of at most ConnDeps
\* ConnCheckers.
ConnInit ==
    /\ dependencies \in SeqsUpTo(ConnPool, ConnDeps)
    /\ version \in Versions
    /\ ready = FALSE
    /\ calls = [c \in Adapters |-> IdleCall]
    /\ crashed = FALSE
    /\ ctx = "live"
    /\ run = "created"
    /\ grpc = NoGRPC
    /\ rest = NoREST
    /\ logged = { }

\* Health / Ready, one call at a time, over ConnCheckers whose health RPC
\* returns any of RpcResults.
ConnNext ==
    \/ SetReady
    \/ \E c \in Adapters : Quiescent /\ HealthCall(c)
    \/ \E c \in Adapters : Quiescent /\ ReadyCall(c)
    \/ \E c \in Adapters, rpc \in RpcResults : HealthCheck(c, ConnCheck(rpc))
    \/ \E c \in Adapters, rpc \in RpcResults : ReadyCheck(c, ConnCheck(rpc))
    \/ \E c \in Adapters : HealthReturn(c)
    \/ \E c \in Adapters : ReadyReturn(c)
    \/ \E c \in Adapters : Respond(c)
    \/ \E c \in Adapters : Complete(c)

ConnSpec == ConnInit /\ [][ConnNext]_vars

\* ------------------------------------------------- reading a call's history

\* The call of adapter c has ended (returned or panicked).
Finished(c) == calls[c].pc \in { "exited", "answered" }

\* The call of adapter c returned a response and a nil error.
Answered(c, op, kind) ==
    /\ Finished(c)
    /\ calls[c].op = op
    /\ calls[c].exit = "return"
    /\ ~calls[c].err
    /\ calls[c].resp.kind = kind

\* Some Check of the call returned an execution error.
ExecError(c) ==
    \E k \in 1..Len(calls[c].checked) : calls[c].checked[k].out.err

\* The k-th Check of the call returned a result with status DOWN.
DownAt(c, k) ==
    /\ ~calls[c].checked[k].out.err
    /\ calls[c].checked[k].out.status = "DOWN"

\* MustOK of the checker the k-th Check was made on.
CriticalAt(c, k) == calls[c].deps[calls[c].checked[k].idx].must

\* The k-th Check returned the first DOWN result of the call.
FirstDownAt(c, k) ==
    /\ DownAt(c, k)
    /\ \A j \in 1..(k - 1) : ~DownAt(c, j)

\* The k-th Check returned the first DOWN result of a critical checker.
FirstCriticalDownAt(c, k) ==
    /\ DownAt(c, k) /\ CriticalAt(c, k)
    /\ \A j \in 1..(k - 1) : ~(DownAt(c, j) /\ CriticalAt(c, j))

\* A Health call that ran over the whole list without an execution error.
HealthRan(c) ==
    /\ Finished(c) /\ calls[c].op = "Health" /\ ~ExecError(c)

\* A Ready call that read the flag as true and met no execution error.
ReadyRan(c) ==
    /\ Finished(c) /\ calls[c].op = "Ready"
    /\ calls[c].sawReady /\ ~ExecError(c)

\* ------------------------------------------------------------------ claims

\* C1: when no Check returns an execution error and the first DOWN result,
\* in registration order, is that of a checker whose MustOK is true, Health
\* returns status DOWN, whatever comes after it.
C1_FirstDownCriticalIsDown ==
    \A c \in Adapters :
        HealthRan(c) =>
            \A k \in 1..Len(calls[c].checked) :
                (FirstDownAt(c, k) /\ CriticalAt(c, k)) =>
                    /\ Answered(c, "Health", "health")
                    /\ calls[c].resp.status = "DOWN"

\* C1 witness: the first DOWN is critical and a non-critical checker after
\* it is DOWN as well.
C1_Witness ==
    \E c \in Adapters :
        /\ HealthRan(c)
        /\ \E k, j \in 1..Len(calls[c].checked) :
              /\ FirstDownAt(c, k) /\ CriticalAt(c, k)
              /\ j > k /\ DownAt(c, j) /\ ~CriticalAt(c, j)

C3_CriticalDownIsDown ==
    \A c \in Adapters :
        HealthRan(c) =>
            \A k \in 1..Len(calls[c].checked) :
                (DownAt(c, k) /\ CriticalAt(c, k)) =>
                    /\ Answered(c, "Health", "health")
                    /\ calls[c].resp.status = "DOWN"

\* C4: when every Check returns status UP, Health returns status UP and
\* every entry of checks has status UP.
C4_AllUpIsUp ==
    \A c \in Adapters :
        ( /\ HealthRan(c)
          /\ \A k \in 1..Len(calls[c].checked) :
                calls[c].checked[k].out.status = "UP" ) =>
            /\ Answered(c, "Health", "health")
            /\ calls[c].resp.status = "UP"
            /\ \A k \in 1..Len(calls[c].resp.checks) :
                  calls[c].resp.checks[k].status = "UP"

\* C4 witness: a Health call over at least two checkers, all UP.
C4_Witness ==
    \E c \in Adapters :
        /\ HealthRan(c)
        /\ Len(calls[c].checked) >= 2
        /\ \A k \in 1..Len(calls[c].checked) :
              calls[c].checked[k].out.status = "UP"

\* C5: in every response of Health, and of Ready when the flag is true,
\* checks has one entry per registered checker and its i-th entry is the
\* result the i-th registered checker returned.
C5_ChecksInRegistrationOrder ==
    \A c \in Adapters :
        ( \/ Answered(c, "Health", "health")
          \/ Answered(c, "Ready", "ready") /\ calls[c].sawReady ) =>
            /\ Len(calls[c].resp.checks) = Len(dependencies)
            /\ Len(calls[c].checked) = Len(dependencies)
            /\ \A i \in 1..Len(dependencies) :
                  /\ calls[c].checked[i].idx = i
                  /\ calls[c].resp.checks[i] =
                        CheckResult(dependencies[i], calls[c].checked[i].out)

\* C5 witness: a Ready response, flag true, over checkers whose results
\* differ, one of them DOWN.
C5_Witness ==
    \E c \in Adapters :
        /\ Answered(c, "Ready", "ready") /\ calls[c].sawReady
        /\ Len(calls[c].resp.checks) >= 2
        /\ calls[c].resp.checks[1].status = "DOWN"
        /\ calls[c].resp.checks[2].status = "UP"
        /\ calls[c].resp.checks[1].name # calls[c].resp.checks[2].name

\* C6: once the Check of the k-th checker has returned an execution error
\* in Health, Health has returned an error and a nil response, and the k-th
\* Check is the last one made by that call.
C6_HealthAbortsOnExecError ==
    \A c \in Adapters :
        (calls[c].op = "Health" /\ ExecError(c)) =>
            /\ Finished(c)
            /\ calls[c].exit = "return"
            /\ calls[c].err
            /\ calls[c].resp.kind = "nil"
            /\ \A k \in 1..Len(calls[c].checked) :
                  calls[c].checked[k].out.err => k = Len(calls[c].checked)

\* C6 witness: the second of three checkers failed to execute, after the
\* first had returned a DOWN result.
C6_Witness ==
    \E c \in Adapters :
        /\ calls[c].op = "Health" /\ Finished(c)
        /\ Len(calls[c].deps) = 3
        /\ Len(calls[c].checked) = 2
        /\ DownAt(c, 1)
        /\ calls[c].checked[2].out.err

\* C7: when Ready has read the flag as true and a Check returns an
\* execution error, Ready returns a non-nil error and no response, and the
\* adapter answers HTTP 503 (REST) or an error status (gRPC).
C7_ReadyReturnsErrorOnExecError ==
    \A c \in Adapters :
        (calls[c].op = "Ready" /\ calls[c].sawReady /\ ExecError(c)) =>
            /\ Finished(c)
            /\ calls[c].exit = "return"
            /\ calls[c].err
            /\ calls[c].resp.kind = "nil"
            /\ calls[c].pc = "answered" => calls[c].wire \in { "503", "Unknown" }

\* C8: a Ready call that reads the flag as false answers ready = false with
\* reason "service is not ready" and no checks, and calls neither Check nor
\* MustOK.
C8_NotReadyInvokesNoChecker ==
    \A c \in Adapters :
        (calls[c].op = "Ready" /\ ~calls[c].sawReady) =>
            /\ Answered(c, "Ready", "ready")
            /\ calls[c].resp.ready = FALSE
            /\ calls[c].resp.reason = "service is not ready"
            /\ calls[c].resp.checks = << >>
            /\ calls[c].checked = << >>
            /\ calls[c].mustAsked = << >>

\* C8 witness: such a call while two or more checkers are registered.
C8_Witness ==
    \E c \in Adapters :
        /\ calls[c].op = "Ready" /\ ~calls[c].sawReady /\ Finished(c)
        /\ ~ready
        /\ Len(dependencies) >= 2

\* C9: a Ready call after SetReady that meets no execution error answers
\* ready = true, reason empty, exactly when no critical checker's result is
\* DOWN; a non-critical DOWN never makes it false.
C9_ReadyIffNoCriticalDown ==
    \A c \in Adapters :
        ReadyRan(c) =>
            LET critDown == \E k \in 1..Len(calls[c].checked) :
                                DownAt(c, k) /\ CriticalAt(c, k)
            IN  /\ Answered(c, "Ready", "ready")
                /\ calls[c].resp.ready <=> ~critDown
                /\ calls[c].resp.ready => calls[c].resp.reason = ""

\* C9 witness: ready = true although a non-critical checker registered
\* before a critical one is DOWN.
C9_Witness ==
    \E c \in Adapters :
        /\ ReadyRan(c)
        /\ calls[c].resp.ready
        /\ \E k, j \in 1..Len(calls[c].checked) :
              /\ k < j
              /\ DownAt(c, k) /\ ~CriticalAt(c, k)
              /\ CriticalAt(c, j)

\* C10: a Ready call after SetReady in which a critical checker's result is
\* DOWN (no execution error) answers ready = false with the message of the
\* first critical DOWN result as reason.
C10_ReasonIsFirstCriticalDown ==
    \A c \in Adapters :
        ReadyRan(c) =>
            \A k \in 1..Len(calls[c].checked) :
                FirstCriticalDownAt(c, k) =>
                    /\ Answered(c, "Ready", "ready")
                    /\ calls[c].resp.ready = FALSE
                    /\ calls[c].resp.reason = calls[c].checked[k].out.message

\* C10 witness: a non-critical DOWN, then two critical DOWN results with
\* different messages.
C10_Witness ==
    \E c \in Adapters :
        /\ ReadyRan(c)
        /\ \E h, k, j \in 1..Len(calls[c].checked) :
              /\ h < k /\ k < j
              /\ DownAt(c, h) /\ ~CriticalAt(c, h)
              /\ FirstCriticalDownAt(c, k)
              /\ DownAt(c, j) /\ CriticalAt(c, j)
              /\ calls[c].checked[h].out.message # calls[c].checked[k].out.message
              /\ calls[c].checked[j].out.message # calls[c].checked[k].out.message

\* C11: the readiness flag is false at construction and, whatever New,
\* AddDependencies, SetReady, Health, Ready and Run do, never goes from true
\* to false; SetReady on a flag that is true changes nothing.
C11_ReadyFlagMonotonic ==
    /\ ~ready
    /\ [][ /\ ready => ready'
           /\ (ready /\ SetReady) => UNCHANGED vars ]_vars

\* C11 witness: the flag is true after Run has returned and a Ready call
\* has been answered with the flag read as true.
C11_Witness ==
    /\ ready
    /\ run = "returned"
    /\ \E c \in Adapters : calls[c].op = "Ready" /\ calls[c].sawReady

\* C12: the REST shutdown is requested only when the gRPC stop has
\* completed, and neither the gRPC stop (nor its health shutdown) nor the
\* REST shutdown happens before the context is cancelled.
C12_GrpcStopsBeforeRestShutdown ==
    /\ rest.shut => grpc.srv = "stopped"
    /\ run \in { "shutdownREST", "draining", "returned" } =>
          grpc.srv = "stopped"
    /\ grpc.srv = "stopped" => ctx = "cancelled"
    /\ grpc.health = "NOT_SERVING" => ctx = "cancelled"

\* C12 witness: both servers were serving; gRPC is stopped and the REST
\* shutdown has closed the REST listener.
C12_Witness ==
    /\ rest.shut /\ rest.lis = "closed"
    /\ grpc.srv = "stopped" /\ grpc.lis = "closed"

\* C13 (as stated): when Run blocks on the cancellation signal, the gRPC
\* listener and the REST listener are both bound.
C13_BothListeningBeforeBlock ==
    (run = "wait" /\ ctx = "live" /\ ~rest.failed /\ grpc.go # "exited") =>
        (grpc.lis = "open" /\ rest.lis = "open")

\* C13 (amended): when Run blocks on the cancellation signal, the gRPC
\* listener has been bound and both serve goroutines have been started; the
\* REST listener is bound by its goroutine, maybe later, maybe never.
C13_GrpcBoundBothStarted ==
    run = "wait" =>
        /\ grpc.lis \in { "open", "closed" }
        /\ grpc.go # "none"
        /\ grpc.go \in { "spawned", "serving" } /\ grpc.srv = "running" =>
              grpc.lis = "open"
        /\ rest.go # "none"

\* C13 witness: Run is blocked, gRPC is serving and the REST goroutine has
\* not bound its listener yet.
C13_Witness ==
    /\ run = "wait" /\ ctx = "live"
    /\ grpc.lis = "open" /\ grpc.go = "serving"
    /\ rest.go = "spawned" /\ rest.lis = "none"

\* C14: as long as the context is not cancelled, Run has not gone past its
\* wait: it has not returned and has neither stopped the gRPC server (or its
\* health service) nor shut down the REST server.
C14_RunBlocksUntilCancelled ==
    ctx = "live" =>
        /\ run \in { "created", "startREST", "wait", "panicked" }
        /\ grpc.lis # "failed" => run # "panicked"
        /\ grpc.srv # "stopped"
        /\ grpc.health # "NOT_SERVING"
        /\ ~rest.shut

\* C14 witness: Run is blocked with both adapters up and a request has
\* been answered, and the context is still live.
C14_Witness ==
    /\ ctx = "live" /\ run = "wait"
    /\ Up("grpc") /\ Up("rest")
    /\ \E c \in Adapters : calls[c].pc = "answered"

\* C15: once Run has returned, no listener it started is open.
C15_ReturnedMeansListenersClosed ==
    run = "returned" => (grpc.lis # "open" /\ rest.lis # "open")

\* C16: a failed gRPC bind ends Run in a panic, for good: the REST server
\* is never started, Run never waits and never returns.
C16_GrpcBindFailureIsFatal ==
    [][ /\ run = "panicked" => run' = "panicked"
        /\ grpc'.lis = "failed" <=> run' = "panicked"
        /\ run' = "panicked" =>
              /\ rest' = NoREST
              /\ grpc'.go = "none"
              /\ "listen:" \in logged' ]_vars

\* C16 witness: Run has panicked and the context was cancelled afterwards.
C16_Witness ==
    /\ run = "panicked" /\ grpc.lis = "failed"
    /\ ctx = "cancelled"

\* C17: a REST bind or serve failure is logged and nothing more: Run does
\* not panic, keeps blocking while the context is live with the gRPC server
\* running, and after cancellation its next step is never blocked by it.
C17_RestFailureOnlyLogged ==
    rest.failed =>
        /\ "serve rest" \in logged
        /\ run \in { "wait", "shutdownGRPC", "stopGRPC", "shutdownREST",
                     "draining", "returned" }
        /\ ctx = "live" =>
              /\ run = "wait"
              /\ grpc.srv = "running" /\ grpc.health = "SERVING"
        /\ (ctx = "cancelled" /\ ~crashed /\ run # "returned"
                /\ calls["rest"].pc = "idle") => ENABLED RunStep

\* C17 witness: the REST bind failed, a gRPC Health call was answered, and
\* after cancellation Run stopped gRPC, shut REST down and returned.
C17_Witness ==
    /\ rest.failed /\ rest.lis = "none"
    /\ run = "returned"
    /\ grpc.srv = "stopped" /\ rest.shut
    /\ calls["grpc"].op = "Health" /\ calls["grpc"].wire = "OK"

\* C18: an error of the REST shutdown is logged and Run returns all the
\* same: it is not raised as a panic.
C18_ShutdownErrorOnlyLogged ==
    /\ rest.shutErr => run \in { "draining", "returned" }
    /\ run = "returned" =>
          ("shutdown rest server" \in logged <=> rest.shutErr)

\* C18 witness: Run has returned although the REST shutdown failed.
C18_Witness ==
    /\ run = "returned"
    /\ rest.shutErr

\* C19 (as stated): whenever the gRPC listener is up and the server is not
\* stopped, the health service reports SERVING.
C19_ServingWhileListening ==
    (grpc.lis = "open" /\ grpc.srv = "running") => grpc.health = "SERVING"

\* C19 (amended): from the bind until Run starts the shutdown, the health
\* service reports SERVING whatever the checkers return and whatever the
\* flag; between healthSrv.Shutdown() and s.Stop() it reports NOT_SERVING.
C19_ServingUntilShutdown ==
    /\ (grpc.lis = "open" /\ grpc.srv = "running") =>
          grpc.health = IF run = "stopGRPC" THEN "NOT_SERVING" ELSE "SERVING"
    /\ grpc.health = "NOT_SERVING" =>
          run \in { "stopGRPC", "shutdownREST", "draining", "returned" }

\* C19 witness: the listener is up, Health has just answered DOWN, the flag
\* is false, and the health service reports SERVING.
C19_Witness ==
    /\ grpc.lis = "open" /\ grpc.srv = "running"
    /\ grpc.health = "SERVING"
    /\ ~ready
    /\ calls["grpc"].op = "Health" /\ calls["grpc"].wire = "OK"
    /\ calls["grpc"].resp.status = "DOWN"

\* C20: when the REST adapter and the gRPC adapter have answered the same
\* operation on the same checker list, with the same checker outcomes, the
\* same value read from the flag and the same version, either both carry a
\* response or neither does, and what a client reads from the two bodies is
\* the same status, version, ready, reason and sequence of checks.
C20_WireParity ==
    ( /\ calls["rest"].pc = "answered" /\ calls["grpc"].pc = "answered"
      /\ calls["rest"].op = calls["grpc"].op
      /\ calls["rest"].deps = calls["grpc"].deps
      /\ calls["rest"].checked = calls["grpc"].checked
      /\ calls["rest"].sawReady = calls["grpc"].sawReady ) =>
        /\ calls["rest"].wire = "200" <=> calls["grpc"].wire = "OK"
        /\ calls["rest"].wire = "200" =>
              JSONRead(calls["rest"].resp.kind, calls["rest"].body)
                = ProtoRead(calls["grpc"].resp.kind, calls["grpc"].body)

\* C20 witness: both adapters have answered Health over two checkers, the
\* second of which is DOWN, and both bodies carry the checks.
C20_Witness ==
    /\ calls["rest"].wire = "200" /\ calls["grpc"].wire = "OK"
    /\ calls["rest"].op = "Health" /\ calls["grpc"].op = "Health"
    /\ calls["rest"].checked = calls["grpc"].checked
    /\ Len(calls["rest"].checked) >= 1
    /\ calls["rest"].checked[Len(calls["rest"].checked)].out.status = "DOWN"
    /\ "checks" \in DOMAIN calls["rest"].body
    /\ "checks" \in DOMAIN calls["grpc"].body

\* C21 (as stated): the REST adapter answers 200 for every evaluation that
\* completed (returned a response and no error), Health or Ready.
C21_CompletedIs200 ==
    ( /\ calls["rest"].pc = "answered"
      /\ calls["rest"].exit = "return" /\ ~calls["rest"].err ) =>
        calls["rest"].wire = "200"

\* C21 (amended): the HTTP status never depends on the verdict.  Health is
\* answered 503 exactly when the evaluation returned an error; a completed
\* evaluation, Health or Ready, is answered 200 with the response, whatever
\* the status / ready value, unless the response cannot be marshalled (a
\* string that is not valid UTF-8), which is answered 500.
C21_StatusIgnoresVerdict ==
    calls["rest"].pc = "answered" =>
        /\ calls["rest"].op = "Health" =>
              (calls["rest"].wire = "503" <=> ExecError("rest"))
        /\ (calls["rest"].exit = "return" /\ ~calls["rest"].err) =>
              /\ calls["rest"].wire =
                    IF Marshalable(calls["rest"].resp) THEN "200" ELSE "500"
              /\ calls["rest"].wire = "200" =>
                    JSONRead(calls["rest"].resp.kind, calls["rest"].body)
                      = [ f \in WireFields(calls["rest"].resp.kind) |->
                            calls["rest"].resp[f] ]

\* C21 witness: /health has been answered 200 with status DOWN.
C21_Witness ==
    /\ calls["rest"].pc = "answered" /\ calls["rest"].op = "Health"
    /\ calls["rest"].wire = "200"
    /\ calls["rest"].resp.status = "DOWN"
    /\ calls["rest"].body.status = "STATUS_DOWN"

\* The evaluation `call` runs the loop: Health, or Ready past its gate.
Evaluates(call) ==
    call.op = "Health" \/ (call.op = "Ready" /\ call.sawReady)

\* Some Check of `call` returned an execution error.
MetError(call) == \E k \in 1..Len(call.checked) : call.checked[k].out.err

\* `call` has invoked Check on every checker of its list, once, in order.
SweptAll(call) ==
    /\ Len(call.checked) = Len(call.deps)
    /\ \A k \in 1..Len(call.checked) : call.checked[k].idx = k

\* C22: an evaluation starts with no result at hand, on the registered
\* list; each of its steps makes at most one Check call, on the checker
\* that follows the last one checked; and when it ends without an execution
\* error it has invoked Check on every registered checker exactly once, in
\* registration order.  This holds for every evaluation, whatever
\* evaluations ran before it or run beside it.
C22_OneFreshPassPerEvaluation ==
    [][ \A c \in Adapters :
          LET old == calls[c]
              new == calls'[c]
          IN  /\ (old.pc = "idle" /\ new.pc # "idle") =>
                    /\ new.checked = << >>
                    /\ new.deps = dependencies
                    /\ Evaluates(new) => (new.pc = "loop" /\ new.i = 1)
              /\ (old.pc # "idle" /\ new.pc # "idle") =>
                    /\ Len(new.checked) \in { Len(old.checked),
                                              Len(old.checked) + 1 }
                    /\ SubSeq(new.checked, 1, Len(old.checked)) = old.checked
                    /\ Len(new.checked) > Len(old.checked) =>
                          new.checked[Len(new.checked)].idx
                            = Len(old.checked) + 1
              /\ ( /\ old.pc = "loop" /\ new.pc = "exited"
                   /\ Evaluates(new) /\ ~MetError(new) ) =>
                    SweptAll(new) ]_vars

\* C22 witness: two evaluations, a Health and a Ready with the flag true,
\* have each invoked both registered checkers in order, and the first
\* checker answered UP to the one and DOWN to the other.
C22_Witness ==
    /\ Len(dependencies) = 2
    /\ calls["rest"].pc = "answered" /\ calls["rest"].op = "Health"
    /\ calls["grpc"].pc = "exited" /\ calls["grpc"].op = "Ready"
    /\ calls["grpc"].sawReady
    /\ SweptAll(calls["rest"]) /\ SweptAll(calls["grpc"])
    /\ ~MetError(calls["rest"]) /\ ~MetError(calls["grpc"])
    /\ calls["rest"].checked[1].out.status = "UP"
    /\ calls["grpc"].checked[1].out.status = "DOWN"

\* C23: Health starts from status UP; a Check result with status UP,
\* DEGRADED or UNKNOWN, from a critical checker or not, leaves the status of
\* Health, the ready value and reason of Ready and the Once as they were;
\* the status of a Health response is always UP, DOWN or DEGRADED.
C23_OnlyDownChangesAggregate ==
    [][ \A c \in Adapters :
          LET old  == calls[c]
              new  == calls'[c]
              last == new.checked[Len(new.checked)].out
          IN  /\ (old.pc = "idle" /\ new.op = "Health") =>
                    new.resp.status = "UP"
              /\ ( /\ old.pc = "loop"
                   /\ Len(new.checked) = Len(old.checked) + 1
                   /\ ~last.err /\ last.status # "DOWN" ) =>
                    /\ new.pc = "loop"
                    /\ new.once = old.once
                    /\ old.op = "Health" =>
                          new.resp.status = old.resp.status
                    /\ old.op = "Ready" =>
                          /\ new.resp.ready = old.resp.ready
                          /\ new.resp.reason = old.resp.reason
              /\ new.resp.kind = "health" =>
                    new.resp.status \in { "UP", "DOWN", "DEGRADED" } ]_vars

\* C23 witness: a critical checker has answered UNKNOWN and another answer
\* was DEGRADED; Health has returned UP and, in the same state, nothing
\* was DOWN.
C23_Witness ==
    \E c \in Adapters :
        /\ HealthRan(c) /\ calls[c].exit = "return"
        /\ \E k, j \in 1..Len(calls[c].checked) :
              /\ calls[c].checked[k].out.status = "UNKNOWN"
              /\ CriticalAt(c, k)
              /\ calls[c].checked[j].out.status = "DEGRADED"
        /\ \A k \in 1..Len(calls[c].checked) : ~DownAt(c, k)
        /\ calls[c].resp.status = "UP"

\* The evaluation `call` continued alone over the outcomes `outs`, from
\* the loop to its return.
RECURSIVE RunAlone(_, _)
RunAlone(call, outs) ==
    IF call.pc # "loop" THEN call
    ELSE IF call.i > Len(call.deps) \/ outs = << >>
    THEN IF call.op = "Health"
         THEN [call EXCEPT !.pc = "exited", !.exit = "return",
                           !.resp.timestamp = "now"]
         ELSE ReadyExit(call, call.resp, FALSE)
    ELSE LET out  == Head(outs)
             dep  == call.deps[call.i]
             seen == [call EXCEPT !.checked =
                          Append(@, [idx |-> call.i, out |-> out,
                                     ctx |-> PassCtx(call.rctx)])]
             next == IF call.op = "Health"
                     THEN IF out.err THEN HealthOnError(seen)
                          ELSE HealthFold(seen, dep, CheckResult(dep, out))
                     ELSE IF out.err THEN ReadyOnError(seen)
                          ELSE ReadyFold(seen, dep, CheckResult(dep, out))
         IN  RunAlone(next, Tail(outs))

\* What the evaluation `call` returns when it is the only one running, on
\* the same list, version and flag value, with the same outcomes.
Alone(call) ==
    LET outs  == [k \in 1..Len(call.checked) |-> call.checked[k].out]
        fresh == [IdleCall EXCEPT !.pc = "loop", !.op = call.op,
                                  !.deps = call.deps, !.i = 1,
                                  !.flag = call.flag]
        start == IF call.op = "Health"
                 THEN [fresh EXCEPT !.resp = HealthInit(version)]
                 ELSE ReadyGate([fresh EXCEPT !.resp = ReadyInit],
                                call.sawReady)
    IN  RunAlone(start, outs)

\* C24: an evaluation that ends while another one is in progress on the
\* other adapter, or has ended there, ends as it would alone with the same
\* checker outcomes (same response, same error, same Once), and no step of
\* an evaluation or of an adapter changes the checker list, the version or
\* the readiness flag.
C24_EvaluationsDoNotInterfere ==
    [][ /\ \A c \in Adapters :
              calls'[c].pc = "exited" =>
                  LET alone == Alone(calls'[c])
                  IN  /\ calls'[c].resp = alone.resp
                      /\ calls'[c].err = alone.err
                      /\ calls'[c].exit = alone.exit
                      /\ calls'[c].once = alone.once
        /\ calls' # calls =>
              UNCHANGED << dependencies, version, ready >> ]_vars

\* C24 witness: two Health evaluations over the same two checkers are in
\* progress at once; the one has returned DOWN, the other has passed the
\* first checker with UP while the first one held a DOWN result.
C24_Witness ==
    /\ Len(dependencies) = 2
    /\ calls["rest"].op = "Health" /\ calls["grpc"].op = "Health"
    /\ calls["rest"].pc = "exited" /\ calls["rest"].exit = "return"
    /\ ~calls["rest"].err
    /\ calls["rest"].resp.status = "DOWN"
    /\ calls["grpc"].pc = "loop" /\ calls["grpc"].i = 2
    /\ calls["grpc"].resp.status = "UP" /\ ~calls["grpc"].once

\* The complete not-ready response of Ready's gate, with no checker asked.
GateAnswer(call) ==
    /\ ~call.sawReady
    /\ call.pc \in { "exited", "answered" } /\ call.exit = "return"
    /\ ~call.err
    /\ call.resp = [ReadyInit EXCEPT !.reason = "service is not ready",
                                     !.timestamp = "now"]
    /\ call.checked = << >> /\ call.mustAsked = << >>

\* An evaluation past the gate: on its way over the list or ended by a
\* panic on an execution error or complete over all checkers, and without
\* the gate's reason.
FullEvaluation(call) ==
    /\ call.sawReady
    /\ call.pc = "loop" =>
          /\ call.resp.ready \/ call.once
          /\ call.resp.reason # "service is not ready"
    /\ call.pc \in { "exited", "answered" } =>
          \/ MetError(call) /\ call.exit = "panic"
          \/ /\ call.exit = "return" /\ ~call.err
             /\ SweptAll(call)
             /\ Len(call.resp.checks) = Len(call.deps)
             /\ call.resp.reason # "service is not ready"

\* C25: a Ready call loads the flag once, at its entry: it is at every
\* moment either the complete not-ready answer of the gate or an evaluation
\* over the checkers, whatever SetReady does meanwhile; a call that starts
\* when the flag is true is an evaluation, one that starts when it is false
\* is the gate's answer.
C25_ReadyReadsFlagOnce ==
    [][ \A c \in Adapters :
          LET old == calls[c]
              new == calls'[c]
          IN  /\ new.op = "Ready" =>
                    (GateAnswer(new) \/ FullEvaluation(new))
              /\ (old.pc = "idle" /\ new.op = "Ready") =>
                    /\ new.sawReady = ready
                    /\ ready => new.pc = "loop"
              /\ (old.op = "Ready" /\ new.op = "Ready") =>
                    new.sawReady = old.sawReady ]_vars

\* C25 witness: SetReady has set the flag while one Ready call holds the
\* gate's not-ready answer, and a Ready call that started afterwards has
\* evaluated all checkers.
C25_Witness ==
    /\ ready
    /\ Len(dependencies) >= 1
    /\ GateAnswer(calls["rest"]) /\ calls["rest"].op = "Ready"
    /\ calls["grpc"].op = "Ready" /\ calls["grpc"].pc = "exited"
    /\ calls["grpc"].exit = "return"
    /\ FullEvaluation(calls["grpc"])

\* C26: two Health calls over the same list that have met the same
\* outcomes hold the same status and the same checks, whether they began
\* with the flag false or true, and a Health call that ends without an
\* execution error has invoked every checker, whatever the flag was.
C26_HealthIgnoresFlag ==
    /\ ( /\ calls["rest"].op = "Health" /\ calls["grpc"].op = "Health"
         /\ calls["rest"].deps = calls["grpc"].deps
         /\ calls["rest"].checked = calls["grpc"].checked ) =>
            /\ calls["rest"].resp.kind = calls["grpc"].resp.kind
            /\ calls["rest"].resp.kind = "health" =>
                  /\ calls["rest"].resp.status = calls["grpc"].resp.status
                  /\ calls["rest"].resp.checks = calls["grpc"].resp.checks
    /\ \A c \in Adapters :
          (HealthRan(c) /\ calls[c].exit = "return") => SweptAll(calls[c])

\* C26 witness: a Health call that began before SetReady and one that
\* began after it have both returned DOWN over the same two checkers with
\* the same outcomes.
C26_Witness ==
    /\ ~calls["rest"].flag /\ calls["grpc"].flag
    /\ calls["rest"].op = "Health" /\ calls["grpc"].op = "Health"
    /\ calls["rest"].pc = "answered" /\ calls["grpc"].pc = "answered"
    /\ Len(calls["rest"].deps) = 2
    /\ calls["rest"].deps = calls["grpc"].deps
    /\ calls["rest"].checked = calls["grpc"].checked
    /\ SweptAll(calls["rest"]) /\ ~MetError(calls["rest"])
    /\ calls["rest"].resp.status = "DOWN"
    /\ calls["grpc"].resp.status = "DOWN"

\* Adapter h holds a Health response and adapter r a Ready response of an
\* evaluation with the flag true, over the same list with the same
\* outcomes, none of them an execution error.
SamePass(h, r) ==
    /\ Answered(h, "Health", "health") /\ Answered(r, "Ready", "ready")
    /\ calls[r].sawReady
    /\ calls[h].deps = calls[r].deps
    /\ calls[h].checked = calls[r].checked
    /\ ~ExecError(h)

\* C27: for the same list and outcomes, with the flag true and no execution
\* error, Health DOWN implies Ready not ready, and Ready ready implies
\* Health UP or DEGRADED.
C27_HealthDownImpliesNotReady ==
    \A h, r \in Adapters :
        SamePass(h, r) =>
            /\ calls[h].resp.status = "DOWN" => ~calls[r].resp.ready
            /\ calls[r].resp.ready =>
                  calls[h].resp.status \in { "UP", "DEGRADED" }

\* C27 witness: over two checkers with a DOWN result, Health has returned
\* DOWN and Ready, on the same outcomes, not ready.
C27_Witness ==
    \E h, r \in Adapters :
        /\ SamePass(h, r)
        /\ Len(calls[h].checked) = 2
        /\ calls[h].resp.status = "DOWN"
        /\ ~calls[r].resp.ready
        /\ calls[r].resp.reason = "connection failed"

\* C28: the registered sequence changes only by an AddDependencies step,
\* which keeps every entry in its place and puts its arguments, in argument
\* order, behind them, and changes nothing else of the monitor; no step of
\* SetReady, Health, Ready, Run or its goroutines changes the sequence.
C28_SequenceOnlyAppended ==
    [][ dependencies' # dependencies =>
          /\ \E args \in SeqsUpTo(Pool, MaxDeps) :
                /\ args # << >>
                /\ dependencies' = dependencies \o args
          /\ SubSeq(dependencies', 1, Len(dependencies)) = dependencies
          /\ UNCHANGED << version, ready, calls, crashed, life >> ]_vars

\* C28 witness: an evaluation over the one checker registered first has
\* been answered, a second checker has been appended behind it since, the
\* flag is set and Run has returned.
C28_Witness ==
    /\ calls["grpc"].pc = "answered"
    /\ Len(calls["grpc"].deps) = 1
    /\ Len(dependencies) = 2
    /\ dependencies[1] = calls["grpc"].deps[1]
    /\ dependencies[2] # dependencies[1]
    /\ ready
    /\ run = "returned"

\* C29: every Check and every MustOK gets the caller's context as it is at
\* that moment; cancelling it neither ends the evaluation nor changes what
\* it returns: an evaluation that meets no execution error has invoked
\* every checker of the list, and ends as the response built from the
\* checkers' results alone.
C29_LoopIgnoresCancellation ==
    [][ \A c \in Adapters :
          LET old == calls[c]
              new == calls'[c]
          IN  /\ (old.pc = "loop" /\ Len(new.checked) > Len(old.checked)) =>
                    new.checked[Len(new.checked)].ctx = old.rctx
              /\ (old.pc = "loop" /\ Len(new.mustCtx) > Len(old.mustCtx)) =>
                    new.mustCtx[Len(new.mustCtx)] = old.rctx
              /\ (old.pc = "loop" /\ old.rctx = "cancelled") =>
                    new.pc = "loop" \/ MetError(new) \/ SweptAll(new)
              /\ (old.pc = "loop" /\ new.pc = "exited" /\ ~MetError(new)) =>
                    /\ SweptAll(new)
                    /\ new.resp = Alone(new).resp
                    /\ new.exit = "return" /\ ~new.err ]_vars

\* C29 witness: the context was cancelled before the first Check; Health
\* has invoked both checkers, each with the cancelled context, asked MustOK
\* with it, and returned DOWN from their results.
C29_Witness ==
    \E c \in Adapters :
        /\ calls[c].op = "Health" /\ calls[c].pc = "exited"
        /\ calls[c].rctx = "cancelled"
        /\ Len(calls[c].deps) = 2 /\ SweptAll(calls[c])
        /\ \A k \in 1..2 : calls[c].checked[k].ctx = "cancelled"
        /\ calls[c].mustCtx = << "cancelled" >>
        /\ ~MetError(calls[c])
        /\ calls[c].resp.status = "DOWN"

\* C30: Run does not return while a REST request is in progress, and a REST
\* request that ends after the shutdown was requested is answered as it
\* would be otherwise; stopping the gRPC server does not wait for a gRPC
\* call in progress: the call is dropped where it is and never answered.
C30_ShutdownIsAsymmetric ==
    [][ /\ run' = "returned" => calls'["rest"].pc = "idle"
        /\ (calls["rest"].pc = "exited" /\ calls'["rest"].pc = "answered") =>
              /\ calls'["rest"].wire = RestAnswer(calls["rest"])
              /\ ~calls'["rest"].dropped
        /\ (run = "stopGRPC" /\ ~crashed) => ENABLED RunStopGRPC
        /\ (grpc.srv = "running" /\ grpc'.srv = "stopped") =>
              /\ calls'["grpc"].pc = calls["grpc"].pc
              /\ calls'["grpc"].dropped =
                    (calls["grpc"].pc \in { "loop", "exited" })
        /\ (calls'["grpc"].pc = "answered" /\ calls'["grpc"].dropped) =>
              calls'["grpc"].wire \in { "dropped", "crash" } ]_vars

\* C30 witness: the REST shutdown was requested while a REST request was
\* in progress; the request has been answered 200 and Run is still waiting
\* for it.
C30_Witness ==
    /\ ctx = "cancelled" /\ rest.shut
    /\ run = "draining"
    /\ calls["rest"].pc = "answered" /\ calls["rest"].wire = "200"
    /\ Len(calls["rest"].checked) >= 1

C32_NoCheckerRegistered ==
    \A c \in Adapters :
        (Finished(c) /\ calls[c].deps = << >>) =>
            /\ calls[c].exit = "return" /\ ~calls[c].err
            /\ calls[c].checked = << >> /\ calls[c].mustAsked = << >>
            /\ calls[c].resp.checks = << >>
            /\ calls[c].op = "Health" =>
                  /\ calls[c].resp.kind = "health"
                  /\ calls[c].resp.status = "UP"
                  /\ calls[c].resp.version = version
            /\ calls[c].op = "Ready" =>
                  /\ calls[c].resp.kind = "ready"
                  /\ calls[c].resp.ready = calls[c].sawReady
                  /\ calls[c].resp.reason =
                        IF calls[c].sawReady THEN ""
                        ELSE "service is not ready"

\* C32 witness: with nothing registered and after SetReady, Ready has
\* been answered with ready = true.
C32_Witness ==
    /\ dependencies = << >> /\ ready
    /\ \E r \in Adapters :
        /\ calls[r].pc = "answered" /\ calls[r].op = "Ready"
        /\ calls[r].deps = << >> /\ calls[r].sawReady
        /\ calls[r].resp.ready /\ calls[r].resp.checks = << >>

====
